---- MODULE Spec2Model ----
(***************************************************************************)
(* A model of the two-player life counter (class GameState of main.js).    *)
(*                                                                         *)
(* The program is single threaded: every handler runs to completion, and   *)
(* the callbacks given to setTimeout run later on the same event queue.    *)
(* The browser's timer table is modelled explicitly (timers), so that      *)
(* clearTimeout, a handle that still holds the id of a timer that already  *)
(* fired, and a timer nobody cancelled are all states of the model.        *)
(* Time is a clock in milliseconds that advances in steps of TickMs; a     *)
(* timer runs at its deadline, before the clock moves on.                  *)
(***************************************************************************)
EXTENDS Integers, Sequences, FiniteSets, TLC

\* ------------------------------------------------------------------------
\* Bounds of the model
\* ------------------------------------------------------------------------
MaxTicks == 4
MaxCalls == 3

\* The same budget where updateLife is also called late.
MaxLateCalls == 2

\* The number of pointerdown events on the button, and the horizon of its
\* clock in steps of HoldStep.
MaxPresses == 2
MaxHoldTicks == 10

\* The number of fetch events the service worker gets.
MaxFetches == 3

\* The same budget where the program starts from every hue.
MaxColorCalls == 1

\* ------------------------------------------------------------------------
\* Program constants
\* ------------------------------------------------------------------------
Players == {1, 2}
DefaultStartLife == 40
HistoryDelay == 2000
ChangeDelay == 3000
Circle == 360

\* The clock's step: half a history window.
TickMs == HistoryDelay \div 2
MaxTime == MaxTicks * TickMs

\* The amounts the adjust buttons pass to updateLife (data-amount).
Amounts == {-3, 3, 4}

\* The strings the settings dialog passes to setStartLife: a preset
\* button's data-value, or whatever the custom input holds.
StartLifeInputs == { <<"2", "0">>, <<"2">>, <<"a", "b", "c">>, <<>> }

\* The delays of the long press: before the first repeat, between the
\* first repeats, and how the repeats accelerate.
HoldDelay == 400
RepeatDelay == 200
RepeatStep == 20
RepeatFloor == 50
HoldStep == RepeatDelay \div 2
MaxHoldTime == MaxHoldTicks * HoldStep

\* The button of the model: data-player and data-amount.
btnPlayer == 1
btnAmount == 3

\* The events that run stopHold.
StopEvents == {"pointerup", "pointerleave", "pointercancel"}

Max(a, b) == IF a >= b THEN a ELSE b
Min(S) == CHOOSE x \in S : \A y \in S : x <= y

\* The requests a page makes: a static asset and one that is not.
Requests == {"/main.js", "/api"}
STATIC_ASSETS == {"/main.js"}

\* A JavaScript number is an integer or NaN.  NaN is a value outside the
\* range the integers of the model reach; arithmetic goes through JsAdd.
NaN == -1000000
Null == 0

Other(p) == 3 - p

\* ------------------------------------------------------------------------
\* Pure functions
\* ------------------------------------------------------------------------
Digits == {"0", "1", "2", "3", "4", "5", "6", "7", "8", "9"}
Whitespace == {" "}

DigitValue(c) ==
    CASE c = "0" -> 0 [] c = "1" -> 1 [] c = "2" -> 2 [] c = "3" -> 3
      [] c = "4" -> 4 [] c = "5" -> 5 [] c = "6" -> 6 [] c = "7" -> 7
      [] c = "8" -> 8 [] c = "9" -> 9

RECURSIVE SkipWhitespace(_)
SkipWhitespace(s) ==
    IF s # <<>> /\ Head(s) \in Whitespace THEN SkipWhitespace(Tail(s)) ELSE s

\* The value of the longest prefix of decimal digits of s, given the value
\* acc of the digits already read; seen says whether any digit was read.
RECURSIVE ParseDigits(_, _, _)
ParseDigits(s, acc, seen) ==
    IF s # <<>> /\ Head(s) \in Digits
    THEN ParseDigits(Tail(s), acc * 10 + DigitValue(Head(s)), TRUE)
    ELSE IF seen THEN acc ELSE NaN

\* parseInt(string) with the default radix: leading whitespace is skipped,
\* one sign is accepted, the leading digits are read and the rest is
\* ignored; NaN when there is no digit to read.
parseInt(str) ==
    LET s == SkipWhitespace(str)
        neg == s # <<>> /\ Head(s) = "-"
        body == IF s # <<>> /\ Head(s) \in {"-", "+"} THEN Tail(s) ELSE s
        n == ParseDigits(body, 0, FALSE)
    IN  IF n = NaN THEN NaN ELSE IF neg THEN -n ELSE n

\* A sum that stops at zero.
JsAddFloored(a, b) ==
    IF a = NaN \/ b = NaN THEN NaN ELSE IF a + b < 0 THEN 0 ELSE a + b

\* The + of two JavaScript numbers.
JsAdd(a, b) == IF a = NaN \/ b = NaN THEN NaN ELSE a + b

\* The text of a number, as string concatenation and textContent make it.
NumText(n) ==
    IF n = NaN THEN <<"N", "a", "N">>
    ELSE IF n < 0 THEN <<"-", -n>> ELSE <<n>>

\* (changeVal > 0 ? "+" : "") + changeVal
ChangeText(changeVal) ==
    (IF changeVal > 0 THEN <<"+">> ELSE <<>>) \o NumText(changeVal)

\* new Date().toLocaleTimeString(): the time of day to the second.
TimeText(ms) == ms \div 1000

RECURSIVE Reverse(_)
Reverse(s) == IF s = <<>> THEN <<>> ELSE Append(Reverse(Tail(s)), Head(s))

\* ------------------------------------------------------------------------
\* State
\* ------------------------------------------------------------------------
VARIABLES
    p1Color,          \* the hue of hsl(h, 85%, 50%), player 1
    p2Color,          \* the same for player 2
    startLife,        \* p1StartLife, p2StartLife
    life,             \* p1Life, p2Life
    history,          \* this.history
    change,           \* this.change
    changeTimeout,    \* this.changeTimeout: a timer id or Null
    historyBuffer,    \* this.historyBuffer
    historyTimeout,   \* this.historyTimeout: a timer id or Null
    timers,           \* the browser's pending timers
    nextTimerId,      \* the id the next setTimeout returns
    now,              \* the clock, in ms
    indicatorText,    \* textContent of #p1-change, #p2-change
    indicatorShow,    \* whether the indicator has the class "show"
    lifeText,         \* textContent of #p1-life, #p2-life
    historyList,      \* the entries of #history-list, top first
    \* history variables: what has happened so far
    calls,            \* the number of calls of updateLife, reset and
                      \* setStartLife so far
    epoch,            \* the number of resets so far
    deltaEpoch,       \* epoch at the player's last updateLife
    deltas,           \* the player's updateLife calls: time and amount
    applied,          \* sum of the amounts applied to the player since
                      \* the later of its last history flush and the last reset
    appliedDisplay,   \* the same sum, since the later of the player's last
                      \* display expiry and the last reset
    sinceFlush,       \* sum of the amounts applied to the player since
                      \* its history callback last ran
    burst,            \* the number of updateLife calls in that sum
    bufAtDelta,       \* historyBuffer as the player's last updateLife left it
    fired,            \* per player, the timer callbacks that ran: kind and time
    lifeRenders,      \* the number of calls of renderLife so far
    historyRenders,   \* the number of calls of renderHistory so far
    \* the service worker
    cache,            \* the cache CACHE_NAME: request -> response or NoResponse
    inflight,         \* the fetch(request) calls the network has not settled
    puts,             \* the cache.put calls waiting for caches.open
    answers,          \* per fetch event, what respondWith was resolved with
    fetches,          \* the number of fetch events so far
    installed,        \* the install event's waitUntil promise has resolved
    \* one adjust button
    holdInterval,     \* holdInterval: a timer id or Null
    holdTimeout,      \* holdTimeout: a timer id or Null
    didLongPress,     \* didLongPress
    holdTimers,       \* the pending timers that startHold and repeat set
    nextHoldId,       \* the id the next of these setTimeout calls returns
    presses,          \* the number of pointerdown events so far
    stopped,          \* stopHold has run and no pointerdown since
    press             \* the press a click would come from: "none", "short"
                      \* (no hold callback has run during it) or "long"

progVars == <<p1Color, p2Color, startLife, life, history, change, changeTimeout,
              historyBuffer, historyTimeout, timers, nextTimerId, now,
              indicatorText, indicatorShow, lifeText, historyList>>
ghostVars == <<calls, epoch, deltaEpoch, deltas, applied, appliedDisplay,
               sinceFlush, burst, bufAtDelta, fired, lifeRenders,
               historyRenders>>
swVars == <<cache, inflight, puts, answers, fetches, installed>>
holdVars == <<holdInterval, holdTimeout, didLongPress, holdTimers, nextHoldId,
              presses, stopped, press>>
vars == <<progVars, ghostVars, swVars, holdVars>>

\* ------------------------------------------------------------------------
\* Timers
\* ------------------------------------------------------------------------
\* clearTimeout(id): no effect when no pending timer has that id.
clearTimeout(T, id) == {t \in T : t.id # id}

\* setTimeout(callback, delay), returning id.
setTimeout(T, id, kind, player, delay) ==
    T \cup {[id |-> id, kind |-> kind, player |-> player, deadline |-> now + delay]}

Due(t) == t.deadline <= now

\* ------------------------------------------------------------------------
\* Rendering
\* ------------------------------------------------------------------------
renderLife(l) ==
    /\ lifeText' = [p \in Players |-> NumText(l[p])]
    /\ lifeRenders' = lifeRenders + 1

EntryHtml(entry) ==
    [player |-> entry.player,
     amount |-> ChangeText(entry.amount),
     newLife |-> NumText(entry.newLife),
     timestamp |-> entry.timestamp]

renderHistory(h) ==
    /\ historyList' = [i \in 1..Len(h) |-> EntryHtml(Reverse(h)[i])]
    /\ historyRenders' = historyRenders + 1

\* ------------------------------------------------------------------------
\* GameState
\* ------------------------------------------------------------------------
\* The constructor without the % circle of player 2's hue.
ConstructorNoWrap(p1Hue) ==
    /\ p1Color = p1Hue
    /\ p2Color = p1Hue + Circle \div 2
    /\ startLife = [p \in Players |-> DefaultStartLife]
    /\ life = [p \in Players |-> DefaultStartLife]
    /\ history = <<>>
    /\ change = [p \in Players |-> 0]
    /\ changeTimeout = [p \in Players |-> Null]
    /\ historyBuffer = [p \in Players |-> 0]
    /\ historyTimeout = [p \in Players |-> Null]
    /\ timers = {}
    /\ nextTimerId = 1
    /\ now = 0
    /\ indicatorText = [p \in Players |-> <<>>]
    /\ indicatorShow = [p \in Players |-> FALSE]
    /\ lifeText = [p \in Players |-> NumText(DefaultStartLife)]
    /\ historyList = <<>>
    /\ calls = 0
    /\ epoch = 0
    /\ deltaEpoch = [p \in Players |-> 0]
    /\ deltas = [p \in Players |-> <<>>]
    /\ applied = [p \in Players |-> 0]
    /\ appliedDisplay = [p \in Players |-> 0]
    /\ sinceFlush = [p \in Players |-> 0]
    /\ burst = [p \in Players |-> 0]
    /\ bufAtDelta = [p \in Players |-> 0]
    /\ fired = [p \in Players |-> <<>>]
    /\ lifeRenders = 0
    /\ historyRenders = 0

\* The constructor, with p1Hue the hue that Math.random() drew.
Constructor(p1Hue) ==
    /\ p1Color = p1Hue
    /\ p2Color = (p1Hue + Circle \div 2) % Circle
    /\ startLife = [p \in Players |-> DefaultStartLife]
    /\ life = [p \in Players |-> DefaultStartLife]
    /\ history = <<>>
    /\ change = [p \in Players |-> 0]
    /\ changeTimeout = [p \in Players |-> Null]
    /\ historyBuffer = [p \in Players |-> 0]
    /\ historyTimeout = [p \in Players |-> Null]
    /\ timers = {}
    /\ nextTimerId = 1
    /\ now = 0
    /\ indicatorText = [p \in Players |-> <<>>]
    /\ indicatorShow = [p \in Players |-> FALSE]
    /\ lifeText = [p \in Players |-> NumText(DefaultStartLife)]
    /\ historyList = <<>>
    /\ calls = 0
    /\ epoch = 0
    /\ deltaEpoch = [p \in Players |-> 0]
    /\ deltas = [p \in Players |-> <<>>]
    /\ applied = [p \in Players |-> 0]
    /\ appliedDisplay = [p \in Players |-> 0]
    /\ sinceFlush = [p \in Players |-> 0]
    /\ burst = [p \in Players |-> 0]
    /\ bufAtDelta = [p \in Players |-> 0]
    /\ fired = [p \in Players |-> <<>>]
    /\ lifeRenders = 0
    /\ historyRenders = 0

\* showChange without its clearTimeout.
showChangeNoClear(player, T, id) ==
    /\ indicatorText' = [indicatorText EXCEPT ![player] = ChangeText(change'[player])]
    /\ indicatorShow' = [indicatorShow EXCEPT ![player] = TRUE]
    /\ changeTimeout' = [changeTimeout EXCEPT ![player] = id]
    /\ timers' = setTimeout(T, id, "change", player, ChangeDelay)

\* showChange(player), on the timer table T, with id the new timer's id.
showChange(player, T, id) ==
    /\ indicatorText' = [indicatorText EXCEPT ![player] = ChangeText(change'[player])]
    /\ indicatorShow' = [indicatorShow EXCEPT ![player] = TRUE]
    /\ changeTimeout' = [changeTimeout EXCEPT ![player] = id]
    /\ timers' = setTimeout(IF changeTimeout[player] # Null
                            THEN clearTimeout(T, changeTimeout[player])
                            ELSE T,
                            id, "change", player, ChangeDelay)

\* scheduleHistory without its clearTimeout.
scheduleHistoryNoClear(player, T, id) ==
    setTimeout(T, id, "history", player, HistoryDelay)

\* The timer table after scheduleHistory(player) on table T.
scheduleHistoryTimers(player, T, id) ==
    setTimeout(IF historyTimeout[player] # Null
               THEN clearTimeout(T, historyTimeout[player])
               ELSE T,
               id, "history", player, HistoryDelay)

\* The body of updateLife(player, amount).
updateLifeBody(player, amount) ==
    /\ life' = [life EXCEPT ![player] = JsAdd(@, amount)]
    /\ change' = [change EXCEPT ![player] = @ + amount]
    /\ historyBuffer' = [historyBuffer EXCEPT ![player] = @ + amount]
    /\ showChange(player, scheduleHistoryTimers(player, timers, nextTimerId + 1),
                  nextTimerId)
    /\ historyTimeout' = [historyTimeout EXCEPT ![player] = nextTimerId + 1]
    /\ nextTimerId' = nextTimerId + 2
    /\ renderLife(life')
    /\ calls' = calls + 1
    /\ deltaEpoch' = [deltaEpoch EXCEPT ![player] = epoch]
    /\ deltas' = [deltas EXCEPT ![player] =
                     Append(@, [at |-> now, amount |-> amount])]
    /\ applied' = [applied EXCEPT ![player] = @ + amount]
    /\ appliedDisplay' = [appliedDisplay EXCEPT ![player] = @ + amount]
    /\ sinceFlush' = [sinceFlush EXCEPT ![player] = @ + amount]
    /\ burst' = [burst EXCEPT ![player] = @ + 1]
    /\ bufAtDelta' = [bufAtDelta EXCEPT ![player] = historyBuffer'[player]]
    /\ UNCHANGED <<p1Color, p2Color, startLife, history, historyList, now,
                   epoch, fired, historyRenders, swVars>>

\* updateLife(player, amount), called while the budget of calls lasts and
\* early enough for both of its timers to run before the clock stops.
updateLife(player, amount) ==
    /\ calls < MaxCalls
    /\ now + ChangeDelay <= MaxTime
    /\ updateLifeBody(player, amount)

\* What the history callback shares between its variants.
HistoryCallbackFrame(t) ==
    /\ t \in timers /\ t.kind = "history" /\ Due(t)
    /\ timers' = timers \ {t}
    /\ applied' = [applied EXCEPT ![t.player] = 0]
    /\ sinceFlush' = [sinceFlush EXCEPT ![t.player] = 0]
    /\ burst' = [burst EXCEPT ![t.player] = 0]
    /\ fired' = [fired EXCEPT ![t.player] =
                    Append(@, [kind |-> "history", at |-> now])]
    /\ UNCHANGED <<p1Color, p2Color, startLife, life, change, changeTimeout,
                   historyTimeout, nextTimerId, now, indicatorText,
                   indicatorShow, lifeText, calls, epoch, deltaEpoch,
                   deltas, appliedDisplay, bufAtDelta, lifeRenders,
                   swVars, holdVars>>

HistoryEntry(player) ==
    [player |-> player,
     amount |-> historyBuffer[player],
     newLife |-> life[player],
     timestamp |-> TimeText(now)]

\* The history callback without its test amount !== 0.
HistoryTimerFiresNoGuard(t) ==
    /\ HistoryCallbackFrame(t)
    /\ history' = Append(history, HistoryEntry(t.player))
    /\ historyBuffer' = [historyBuffer EXCEPT ![t.player] = 0]
    /\ renderHistory(history')

\* The history callback without historyBuffer[player] = 0.
HistoryTimerFiresKeepsBuffer(t) ==
    /\ HistoryCallbackFrame(t)
    /\ IF historyBuffer[t.player] # 0
       THEN /\ history' = Append(history, HistoryEntry(t.player))
            /\ renderHistory(history')
            /\ UNCHANGED historyBuffer
       ELSE UNCHANGED <<history, historyBuffer, historyList, historyRenders>>

\* The history callback with unshift in place of push.
HistoryTimerFiresPrepends(t) ==
    /\ HistoryCallbackFrame(t)
    /\ IF historyBuffer[t.player] # 0
       THEN /\ history' = <<HistoryEntry(t.player)>> \o history
            /\ historyBuffer' = [historyBuffer EXCEPT ![t.player] = 0]
            /\ renderHistory(history')
       ELSE UNCHANGED <<history, historyBuffer, historyList, historyRenders>>

\* The history callback re-rendering the list on every run.
HistoryTimerFiresAlwaysRenders(t) ==
    /\ HistoryCallbackFrame(t)
    /\ IF historyBuffer[t.player] # 0
       THEN /\ history' = Append(history, HistoryEntry(t.player))
            /\ historyBuffer' = [historyBuffer EXCEPT ![t.player] = 0]
       ELSE UNCHANGED <<history, historyBuffer>>
    /\ renderHistory(history')

\* The history callback clearing the player's pending delta as well.
HistoryTimerFiresClearsChange(t) ==
    /\ t \in timers /\ t.kind = "history" /\ Due(t)
    /\ timers' = timers \ {t}
    /\ applied' = [applied EXCEPT ![t.player] = 0]
    /\ sinceFlush' = [sinceFlush EXCEPT ![t.player] = 0]
    /\ burst' = [burst EXCEPT ![t.player] = 0]
    /\ fired' = [fired EXCEPT ![t.player] =
                    Append(@, [kind |-> "history", at |-> now])]
    /\ change' = [change EXCEPT ![t.player] = 0]
    /\ UNCHANGED <<p1Color, p2Color, startLife, life, changeTimeout,
                   historyTimeout, nextTimerId, now, indicatorText,
                   indicatorShow, lifeText, calls, epoch, deltaEpoch,
                   deltas, appliedDisplay, bufAtDelta, lifeRenders,
                   swVars, holdVars>>
    /\ IF historyBuffer[t.player] # 0
       THEN /\ history' = Append(history, HistoryEntry(t.player))
            /\ historyBuffer' = [historyBuffer EXCEPT ![t.player] = 0]
            /\ renderHistory(history')
       ELSE UNCHANGED <<history, historyBuffer, historyList, historyRenders>>

\* The callback scheduleHistory gave to setTimeout, run for timer t.
HistoryTimerFires(t) ==
    LET player == t.player
        amount == historyBuffer[player]
    IN  /\ HistoryCallbackFrame(t)
        /\ IF amount # 0
           THEN /\ history' = Append(history, HistoryEntry(player))
                /\ historyBuffer' = [historyBuffer EXCEPT ![player] = 0]
                /\ renderHistory(history')
           ELSE UNCHANGED <<history, historyBuffer, historyList, historyRenders>>

\* The display callback clearing both players' deltas, as reset() does.
ChangeTimerFiresClearsAll(t) ==
    LET player == t.player
    IN  /\ t \in timers /\ t.kind = "change" /\ Due(t)
        /\ timers' = timers \ {t}
        /\ indicatorShow' = [indicatorShow EXCEPT ![player] = FALSE]
        /\ change' = [p \in Players |-> 0]
        /\ appliedDisplay' = [appliedDisplay EXCEPT ![player] = 0]
        /\ fired' = [fired EXCEPT ![player] =
                        Append(@, [kind |-> "change", at |-> now])]
        /\ UNCHANGED <<p1Color, p2Color, startLife, life, history, changeTimeout,
                       historyBuffer, historyTimeout, nextTimerId, now,
                       indicatorText, lifeText, historyList, calls, epoch,
                       deltaEpoch, deltas, applied, sinceFlush, burst,
                       bufAtDelta, lifeRenders, historyRenders, swVars,
                       holdVars>>

\* The callback showChange gave to setTimeout, run for timer t.
ChangeTimerFires(t) ==
    LET player == t.player
    IN  /\ t \in timers /\ t.kind = "change" /\ Due(t)
        /\ timers' = timers \ {t}
        /\ indicatorShow' = [indicatorShow EXCEPT ![player] = FALSE]
        /\ change' = [change EXCEPT ![player] = 0]
        /\ appliedDisplay' = [appliedDisplay EXCEPT ![player] = 0]
        /\ fired' = [fired EXCEPT ![player] =
                        Append(@, [kind |-> "change", at |-> now])]
        /\ UNCHANGED <<p1Color, p2Color, startLife, life, history, changeTimeout,
                       historyBuffer, historyTimeout, nextTimerId, now,
                       indicatorText, lifeText, historyList, calls, epoch,
                       deltaEpoch, deltas, applied, sinceFlush, burst,
                       bufAtDelta, lifeRenders, historyRenders, swVars,
                       holdVars>>

\* The body of reset(), with sl the start lives it reads.
resetBody(sl) ==
    /\ life' = [p \in Players |-> sl[p]]
    /\ history' = <<>>
    /\ change' = [p \in Players |-> 0]
    /\ renderLife(life')
    /\ renderHistory(history')
    /\ epoch' = epoch + 1
    /\ applied' = [p \in Players |-> 0]
    /\ appliedDisplay' = [p \in Players |-> 0]
    /\ UNCHANGED <<p1Color, p2Color, changeTimeout, historyBuffer,
                   historyTimeout, timers, nextTimerId, now, indicatorText,
                   indicatorShow, deltaEpoch, deltas, sinceFlush, burst,
                   bufAtDelta, fired, swVars, holdVars>>
    /\ calls' = calls + 1

\* setStartLife without its call of reset().
setStartLifeNoReset(player, val) ==
    /\ calls < MaxCalls
    /\ startLife' = [startLife EXCEPT ![player] = parseInt(val)]
    /\ UNCHANGED <<p1Color, p2Color, life, history, change, changeTimeout,
                   historyBuffer, historyTimeout, timers, nextTimerId, now,
                   indicatorText, indicatorShow, lifeText, historyList,
                   epoch, deltaEpoch, deltas, applied, appliedDisplay,
                   sinceFlush, burst, bufAtDelta, fired, lifeRenders,
                   historyRenders, swVars, holdVars>>
    /\ calls' = calls + 1

reset ==
    /\ calls < MaxCalls
    /\ resetBody(startLife)
    /\ UNCHANGED startLife

setStartLife(player, val) ==
    /\ calls < MaxCalls
    /\ startLife' = [startLife EXCEPT ![player] = parseInt(val)]
    /\ resetBody(startLife')

\* ------------------------------------------------------------------------
\* The service worker
\* ------------------------------------------------------------------------
\* A response is its status and the version of its body.  Three records
\* stand for the absence of a response: no match in the cache, a promise
\* that rejected, a promise not settled yet.
NoResponse == [status |-> 0, body |-> 0]
Rejected == [status |-> -1, body |-> 0]
Pending == [status |-> -2, body |-> 0]

Bodies == {1, 2}

Ok(b) == [status |-> 200, body |-> b]

\* What fetch(request) can settle with: a 200, a 404, or a rejection (the
\* network is unreachable).
NetworkOutcomes == {Ok(b) : b \in Bodies} \cup {[status |-> 404, body |-> 0], Rejected}

ServiceWorkerInit ==
    /\ cache = [r \in Requests |-> NoResponse]
    /\ inflight = {}
    /\ puts = {}
    /\ answers = <<>>
    /\ fetches = 0
    /\ installed = FALSE

\* The install handler once addAll has fetched every static asset.  When
\* a fetch of addAll fails the worker is never installed and gets no
\* fetch event.
Install ==
    /\ ~installed
    /\ \E b \in Bodies :
           cache' = [r \in Requests |->
                        IF r \in STATIC_ASSETS THEN Ok(b) ELSE cache[r]]
    /\ installed' = TRUE
    /\ UNCHANGED <<inflight, puts, answers, fetches>>
    /\ UNCHANGED <<progVars, ghostVars, holdVars>>

\* The fetch handler up to its fetch(event.request): caches.match, and on
\* a match respondWith is resolved with the cached response at once.
FetchEvent(request) ==
    LET cachedResponse == cache[request]
        id == fetches + 1
    IN  /\ installed
        /\ fetches < MaxFetches
        /\ fetches' = id
        /\ IF cachedResponse # NoResponse
           THEN /\ inflight' = inflight \cup
                       {[id |-> id, request |-> request, path |-> "revalidate"]}
                /\ answers' = Append(answers,
                       [request |-> request, hit |-> TRUE,
                        response |-> cachedResponse, network |-> Pending])
           ELSE /\ inflight' = inflight \cup
                       {[id |-> id, request |-> request, path |-> "miss"]}
                /\ answers' = Append(answers,
                       [request |-> request, hit |-> FALSE,
                        response |-> Pending, network |-> Pending])
        /\ UNCHANGED <<cache, puts, installed>>
        /\ UNCHANGED <<progVars, ghostVars, holdVars>>

\* The background fetch writing whatever it got.
RevalidateNoCheck(f, networkResponse) ==
    puts \cup {[id |-> f.id, request |-> f.request, response |-> networkResponse]}

\* The cache.put calls after the background fetch of a cached request
\* resolved with networkResponse.
Revalidate(f, networkResponse) ==
    IF networkResponse # NoResponse /\ networkResponse.status = 200
    THEN puts \cup {[id |-> f.id, request |-> f.request,
                     response |-> networkResponse]}
    ELSE puts

\* The fetch of an uncached request writing whatever it got.
FetchAndCacheNoCheck(f, networkResponse) ==
    puts \cup {[id |-> f.id, request |-> f.request, response |-> networkResponse]}

\* The cache.put calls after the fetch of an uncached request resolved
\* with networkResponse.
FetchAndCache(f, networkResponse) ==
    IF networkResponse = NoResponse \/ networkResponse.status # 200
    THEN puts
    ELSE puts \cup {[id |-> f.id, request |-> f.request,
                     response |-> networkResponse]}

\* fetch(event.request) settles.  A rejection runs no then-callback: on
\* the cached path it is dropped, on the other it rejects respondWith.
NetworkSettles(f, outcome) ==
    /\ f \in inflight
    /\ inflight' = inflight \ {f}
    /\ IF f.path = "revalidate"
       THEN /\ puts' = IF outcome = Rejected THEN puts ELSE Revalidate(f, outcome)
            /\ answers' = [answers EXCEPT ![f.id].network = outcome]
       ELSE /\ puts' = IF outcome = Rejected THEN puts ELSE FetchAndCache(f, outcome)
            /\ answers' = [answers EXCEPT ![f.id].network = outcome,
                                          ![f.id].response = outcome]
    /\ UNCHANGED <<cache, fetches, installed>>
    /\ UNCHANGED <<progVars, ghostVars, holdVars>>

\* caches.open(CACHE_NAME) resolves and cache.put runs.
CachePut(w) ==
    /\ w \in puts
    /\ puts' = puts \ {w}
    /\ cache' = [cache EXCEPT ![w.request] = w.response]
    /\ UNCHANGED <<inflight, answers, fetches, installed>>
    /\ UNCHANGED <<progVars, ghostVars, holdVars>>

\* ------------------------------------------------------------------------
\* An adjust button
\* ------------------------------------------------------------------------
ButtonInit ==
    /\ holdInterval = Null
    /\ holdTimeout = Null
    /\ didLongPress = FALSE
    /\ holdTimers = {}
    /\ nextHoldId = 1
    /\ presses = 0
    /\ stopped = FALSE
    /\ press = "none"

\* A timer of the button: currentDelay is the variable of the startHold
\* call whose closures the callback belongs to.
HoldTimer(id, kind, delay, currentDelay) ==
    [id |-> id, kind |-> kind, deadline |-> now + delay,
     currentDelay |-> currentDelay]

applyChange == updateLife(btnPlayer, btnAmount)

\* The pointerdown listener: startHold().
startHold ==
    /\ presses < MaxPresses
    /\ didLongPress' = FALSE
    /\ holdTimeout' = nextHoldId
    /\ holdTimers' = holdTimers \cup
                        {HoldTimer(nextHoldId, "hold", HoldDelay, RepeatDelay)}
    /\ nextHoldId' = nextHoldId + 1
    /\ presses' = presses + 1
    /\ stopped' = FALSE
    /\ press' = "short"
    /\ UNCHANGED holdInterval
    /\ UNCHANGED <<progVars, ghostVars, swVars>>

\* The callback of holdTimeout: the first repeat, then repeat().
holdTimeoutCallback(t) ==
    /\ t \in holdTimers /\ t.kind = "hold" /\ Due(t)
    /\ didLongPress' = TRUE
    /\ applyChange
    /\ holdInterval' = nextHoldId
    /\ holdTimers' = (holdTimers \ {t}) \cup
                        {HoldTimer(nextHoldId, "repeat", t.currentDelay,
                                   t.currentDelay)}
    /\ nextHoldId' = nextHoldId + 1
    /\ press' = IF press = "short" THEN "long" ELSE press
    /\ UNCHANGED <<holdTimeout, presses, stopped>>

\* The callback of holdInterval: a repeat, faster next time, then repeat().
repeatCallback(t) ==
    LET currentDelay == Max(RepeatFloor, t.currentDelay - RepeatStep)
    IN  /\ t \in holdTimers /\ t.kind = "repeat" /\ Due(t)
        /\ applyChange
        /\ holdInterval' = nextHoldId
        /\ holdTimers' = (holdTimers \ {t}) \cup
                            {HoldTimer(nextHoldId, "repeat", currentDelay,
                                       currentDelay)}
        /\ nextHoldId' = nextHoldId + 1
        /\ UNCHANGED <<holdTimeout, didLongPress, presses, stopped, press>>

\* The pointerup, pointerleave and pointercancel listeners: stopHold().
\* A click follows a pointerup only.
stopHold(ev) ==
    LET T1 == IF holdTimeout # Null
              THEN clearTimeout(holdTimers, holdTimeout) ELSE holdTimers
        T2 == IF holdInterval # Null
              THEN clearTimeout(T1, holdInterval) ELSE T1
    IN  /\ holdTimers' = T2
        /\ holdTimeout' = Null
        /\ holdInterval' = Null
        /\ stopped' = TRUE
        /\ press' = IF ev = "pointerup" THEN press ELSE "none"
        /\ UNCHANGED <<didLongPress, nextHoldId, presses>>
        /\ UNCHANGED <<progVars, ghostVars, swVars>>

\* The click listener.  The browser sends a click after the pointerup of
\* a press, or for the keyboard while no press is going on.
click ==
    /\ stopped \/ presses = 0
    /\ IF didLongPress
       THEN /\ didLongPress' = FALSE
            /\ UNCHANGED <<progVars, ghostVars, swVars>>
       ELSE /\ applyChange
            /\ UNCHANGED didLongPress
    /\ press' = "none"
    /\ UNCHANGED <<holdInterval, holdTimeout, holdTimers, nextHoldId, presses,
                   stopped>>

\* The clock of the button: to the next deadline, by HoldStep at most,
\* once every callback that is due has run.
HoldTick ==
    LET next == Min({now + HoldStep} \cup {t.deadline : t \in holdTimers})
    IN  /\ \A t \in holdTimers : ~Due(t)
        /\ \A t \in timers : ~Due(t)
        /\ next <= MaxHoldTime
        /\ now' = next
        /\ UNCHANGED <<p1Color, p2Color, startLife, life, history, change,
                       changeTimeout, historyBuffer, historyTimeout, timers,
                       nextTimerId, indicatorText, indicatorShow, lifeText,
                       historyList, ghostVars, swVars, holdVars>>

\* The clock advances once every callback that is due has run.
Tick ==
    /\ now + TickMs <= MaxTime
    /\ \A t \in timers : ~Due(t)
    /\ now' = now + TickMs
    /\ UNCHANGED <<p1Color, p2Color, startLife, life, history, change,
                   changeTimeout, historyBuffer, historyTimeout, timers,
                   nextTimerId, indicatorText, indicatorShow, lifeText,
                   historyList, ghostVars, swVars, holdVars>>

\* The hue has no effect on the counters.
Hues == {200}

Init ==
    /\ \E h \in Hues : Constructor(h)
    /\ ServiceWorkerInit
    /\ ButtonInit

\* In Next the adjust buttons are their calls of updateLife.
Next ==
    \/ \E p \in Players, a \in Amounts : updateLife(p, a) /\ UNCHANGED holdVars
    \/ \E t \in timers : HistoryTimerFires(t)
    \/ \E t \in timers : ChangeTimerFires(t)
    \/ reset
    \/ \E p \in Players, v \in StartLifeInputs : setStartLife(p, v)
    \/ Tick

Spec == Init /\ [][Next]_vars

\* The same program with a caller that also passes the amount 0 to
\* updateLife, which no adjust button does.
NextZero ==
    \/ Next
    \/ \E p \in Players : updateLife(p, 0) /\ UNCHANGED holdVars

SpecZero == Init /\ [][NextZero]_vars

\* The program with updateLife called as long as its history timer can
\* still run, its display timer or not: a delta can then follow a history
\* flush at once.
NextLate ==
    \/ /\ calls < MaxLateCalls
       /\ now + HistoryDelay <= MaxTime
       /\ \E p \in Players, a \in Amounts :
              updateLifeBody(p, a) /\ UNCHANGED holdVars
    \/ \E t \in timers : HistoryTimerFires(t)
    \/ \E t \in timers : ChangeTimerFires(t)
    \/ calls < MaxLateCalls /\ reset
    \/ /\ calls < MaxLateCalls
       /\ \E p \in Players, v \in StartLifeInputs : setStartLife(p, v)
    \/ Tick

SpecLate == Init /\ [][NextLate]_vars

\* One adjust button and the GameState it calls, for the first second.
NextHold ==
    \/ startHold
    \/ \E ev \in StopEvents : stopHold(ev)
    \/ click
    \/ \E t \in holdTimers : holdTimeoutCallback(t)
    \/ \E t \in holdTimers : repeatCallback(t)
    \/ HoldTick

SpecHold == Init /\ [][NextHold]_vars

\* The service worker on its own.
NextSW ==
    \/ Install
    \/ \E request \in Requests : FetchEvent(request)
    \/ \E f \in inflight, outcome \in NetworkOutcomes : NetworkSettles(f, outcome)
    \/ \E w \in puts : CachePut(w)

SpecSW == Init /\ [][NextSW]_vars

\* The program from every hue Math.floor(Math.random() * circle) can be,
\* with at most MaxColorCalls calls of updateLife, reset and setStartLife.
AllHues == 0..(Circle - 1)

InitColor ==
    /\ \E h \in AllHues : Constructor(h)
    /\ ServiceWorkerInit
    /\ ButtonInit

NextColor ==
    \/ /\ calls < MaxColorCalls
       /\ \E p \in Players, a \in Amounts : updateLife(p, a) /\ UNCHANGED holdVars
    \/ \E t \in timers : HistoryTimerFires(t)
    \/ \E t \in timers : ChangeTimerFires(t)
    \/ calls < MaxColorCalls /\ reset
    \/ /\ calls < MaxColorCalls
       /\ \E p \in Players, v \in StartLifeInputs : setStartLife(p, v)
    \/ Tick

SpecColor == InitColor /\ [][NextColor]_vars

\* ------------------------------------------------------------------------
\* Vocabulary of the properties
\* ------------------------------------------------------------------------
\* A reset has happened and no updateLife since: every pending timer was
\* scheduled before that reset.
Quiet == epoch > 0 /\ \A p \in Players : deltaEpoch[p] < epoch

ResetCalled == epoch' = epoch + 1

TimerFires == \E t \in timers : HistoryTimerFires(t) \/ ChangeTimerFires(t)

EntryAppended == Len(history') > Len(history)
NewEntry == history'[Len(history')]

PendingTimers(kind, p) == {t \in timers : t.kind = kind /\ t.player = p}

LastDelta(p) == deltas[p][Len(deltas[p])].at

DeltaTimes(p) == [i \in 1..Len(deltas[p]) |-> deltas[p][i].at]

\* The entries of player p, in the order they were logged.
EntriesOf(p) == SelectSeq(history, LAMBDA e : e.player = p)

\* ------------------------------------------------------------------------
\* C1  Reset atomicity.  Right after reset() both lives equal the start
\* lives and the history is empty; and as long as no operation follows the
\* reset, no timer callback changes the lives, the history, the pending
\* deltas or the history buffers.
\* ------------------------------------------------------------------------
C1_ResetAtomicity ==
    [][ /\ reset => (life' = startLife /\ history' = <<>>)
        /\ (Quiet /\ TimerFires) =>
               UNCHANGED <<life, history, change, historyBuffer>> ]_vars

\* ------------------------------------------------------------------------
\* C2  A delta buffered when reset() runs is discarded: the history buffers
\* are 0 right after a reset, and the amount of every entry logged equals
\* the sum of the amounts applied to its player since the last reset (and
\* since that player's previous flush).
\* ------------------------------------------------------------------------
C2_ResetDiscardsBuffer ==
    [][ /\ ResetCalled => \A p \in Players : historyBuffer'[p] = 0
        /\ EntryAppended => NewEntry.amount = applied[NewEntry.player] ]_vars

\* ------------------------------------------------------------------------
\* C3  Coalescing.  An entry's amount is the sum of the amounts applied to
\* its player since that player's previous history flush.  A burst of
\* calls has exactly one history timer pending, so it is logged as one
\* entry when that timer runs; with no reset before it, a player's first
\* entry has resultingLife = start + amount (+3 then +4: amount 7).
\* ------------------------------------------------------------------------
RECURSIVE SumAmounts(_)
SumAmounts(entries) ==
    IF entries = <<>> THEN 0
    ELSE Head(entries).amount + SumAmounts(Tail(entries))

C4_NoiseSuppression ==
    /\ [](\A i \in 1..Len(history) : history[i].amount # 0)
    /\ [](\A p \in Players :
            epoch = 0 =>
              life[p] = startLife[p] + SumAmounts(deltas[p]))
    /\ [][ \A t \in timers :
             (HistoryTimerFires(t) /\ sinceFlush[t.player] = 0) =>
                 UNCHANGED <<history, life>> ]_vars

C4_Witness ==
    /\ epoch = 0
    /\ Len(deltas[1]) = 2
    /\ deltas[1][1].amount = -deltas[1][2].amount
    /\ bufAtDelta[1] = 0
    /\ burst[1] = 0
    /\ fired[1] # <<>>
    /\ fired[1][Len(fired[1])] = [kind |-> "history", at |-> LastDelta(1) + HistoryDelay]
    /\ EntriesOf(1) = <<>>
    /\ life[1] = startLife[1]

\* ------------------------------------------------------------------------
\* C5  A nonzero buffered delta is logged when its window expires.  After
\* updateLife(p, a) left historyBuffer[p] # 0, with no later updateLife(p)
\* and no reset: until 2000 ms have passed nothing is logged and the
\* buffer stands; once they have passed exactly one entry of p has been
\* appended since the call, with the buffered sum as amount and the
\* current life of p as resultingLife, and historyBuffer[p] is 0.
\* ------------------------------------------------------------------------
C5_BufferedDeltaLogged ==
    \A p \in Players :
        (deltas[p] # <<>> /\ deltaEpoch[p] = epoch /\ bufAtDelta[p] # 0) =>
            LET deadline == LastDelta(p) + HistoryDelay
                since == SelectSeq(EntriesOf(p),
                                   LAMBDA e : e.timestamp * 1000 > LastDelta(p))
                waiting == /\ since = <<>>
                           /\ historyBuffer[p] = bufAtDelta[p]
                           /\ \E t \in timers :
                                /\ PendingTimers("history", p) = {t}
                                /\ t.deadline = deadline
                logged == /\ since = <<[player |-> p,
                                        amount |-> bufAtDelta[p],
                                        newLife |-> life[p],
                                        timestamp |-> TimeText(deadline)]>>
                          /\ historyBuffer[p] = 0
                          /\ PendingTimers("history", p) = {}
            IN  IF now < deadline THEN waiting
                ELSE IF now > deadline THEN logged
                ELSE waiting \/ logged

C5_Witness ==
    /\ startLife[1] = 20
    /\ deltaEpoch[1] = epoch
    /\ bufAtDelta[1] = -3
    /\ life[1] = 17
    /\ historyBuffer[1] = 0
    /\ history = <<[player |-> 1, amount |-> -3, newLife |-> 17,
                    timestamp |-> TimeText(LastDelta(1) + HistoryDelay)]>>

\* ------------------------------------------------------------------------
\* C6  Sum invariant.  After each updateLife(p, a), historyBuffer[p] is the
\* sum of the amounts applied to p since the later of p's last history
\* flush and the last reset, and pendingDelta (change[p]) is that sum since
\* the later of p's last display expiry and the last reset.
\* ------------------------------------------------------------------------
C6_SumInvariant ==
    [][ \A p \in Players, a \in Amounts :
          updateLife(p, a) =>
              /\ historyBuffer'[p] = applied'[p]
              /\ change'[p] = appliedDisplay'[p] ]_vars

\* ------------------------------------------------------------------------
\* What the settings dialog may hand over: a string is a decimal integer
\* when it is an optional sign followed by digits only, at least one.
\* ------------------------------------------------------------------------
IsInteger(str) ==
    LET body == IF str # <<>> /\ str[1] \in {"-", "+"} THEN Tail(str) ELSE str
    IN  body # <<>> /\ \A i \in 1..Len(body) : body[i] \in Digits

RECURSIVE Pow10(_)
Pow10(n) == IF n = 0 THEN 1 ELSE 10 * Pow10(n - 1)

\* The number a decimal integer denotes, by the weight of each digit.
RECURSIVE Weighted(_)
Weighted(body) ==
    IF body = <<>> THEN 0
    ELSE DigitValue(Head(body)) * Pow10(Len(body) - 1) + Weighted(Tail(body))

IntegerValue(str) ==
    IF str[1] = "-" THEN -Weighted(Tail(str))
    ELSE IF str[1] = "+" THEN Weighted(Tail(str)) ELSE Weighted(str)

\* ------------------------------------------------------------------------
\* C7  setStartLife(player, value) with a value that is no number is
\* rejected: the start lives stay as they were and none becomes NaN, no
\* reset is performed, and lives, history and buffers are unchanged.
\* ------------------------------------------------------------------------
C7_MalformedStartLifeRejected ==
    [][ \A p \in Players, v \in StartLifeInputs :
          (setStartLife(p, v) /\ ~IsInteger(v)) =>
              /\ startLife' = startLife
              /\ startLife'[p] # NaN
              /\ epoch' = epoch
              /\ UNCHANGED <<life, history, change, historyBuffer>> ]_vars

\* ------------------------------------------------------------------------
\* C8  setStartLife(player, value) with a decimal integer sets that
\* player's start life to it, leaves the other player's start life alone,
\* and resets: afterwards both lives equal their start lives and the
\* history is empty.
\* ------------------------------------------------------------------------
C8_SetStartLifeResets ==
    [][ \A p \in Players, v \in StartLifeInputs :
          (setStartLife(p, v) /\ IsInteger(v)) =>
              /\ startLife'[p] = IntegerValue(v)
              /\ startLife'[Other(p)] = startLife[Other(p)]
              /\ \A q \in Players : life'[q] = startLife'[q]
              /\ history' = <<>>
              /\ epoch' = epoch + 1 ]_vars

\* Player 1's start life was set to 20 while player 2 had a delta applied:
\* both lives are back at their start, the history is empty.
C8_Witness ==
    /\ epoch = 1
    /\ startLife = <<20, DefaultStartLife>>
    /\ life = startLife
    /\ history = <<>>
    /\ deltas[2] # <<>>
    /\ deltaEpoch[2] < epoch
    /\ deltas[1] = <<>>

\* ------------------------------------------------------------------------
\* C9  Independent windows.  With deltas for one player at t = 0 and
\* t = 1000 and no reset, that player's timer callbacks run as follows and
\* no others: the history callback at t = 3000, then the display callback
\* at t = 4000.  A nonzero sum is logged as one entry at t = 3000, and from
\* the second delta until t = 4000 the indicator shows the sum.
\* ------------------------------------------------------------------------
C9_IndependentWindows ==
    \A p \in Players :
        (epoch = 0 /\ DeltaTimes(p) = <<0, 1000>>) =>
            LET sum == deltas[p][1].amount + deltas[p][2].amount
                flush == [kind |-> "history", at |-> 1000 + HistoryDelay]
                clear == [kind |-> "change", at |-> 1000 + ChangeDelay]
                entry == [player |-> p, amount |-> sum,
                          newLife |-> startLife[p] + sum,
                          timestamp |-> TimeText(1000 + HistoryDelay)]
            IN  /\ fired[p] \in {<<>>, <<flush>>, <<flush, clear>>}
                /\ now > flush.at => Len(fired[p]) >= 1
                /\ now > clear.at => Len(fired[p]) = 2
                /\ now < flush.at => fired[p] = <<>>
                /\ now < clear.at => Len(fired[p]) <= 1
                /\ EntriesOf(p) = IF fired[p] # <<>> /\ sum # 0 THEN <<entry>> ELSE <<>>
                /\ IF Len(fired[p]) < 2
                   THEN /\ indicatorShow[p]
                        /\ indicatorText[p] = ChangeText(sum)
                        /\ change[p] = sum
                   ELSE /\ ~indicatorShow[p]
                        /\ change[p] = 0

C9_Witness ==
    /\ epoch = 0
    /\ deltas[1] = <<[at |-> 0, amount |-> 3], [at |-> 1000, amount |-> 4]>>
    /\ fired[1] = <<[kind |-> "history", at |-> 3000], [kind |-> "change", at |-> 4000]>>
    /\ EntriesOf(1) = <<[player |-> 1, amount |-> 7, newLife |-> 47, timestamp |-> 3]>>
    /\ indicatorText[1] = <<"+", 7>>
    /\ ~indicatorShow[1]

\* ------------------------------------------------------------------------
\* C10  Last restart wins.  At most one timer is pending per player and
\* track; updateLife(p, .) leaves pending, for each track of p, exactly the
\* timer it scheduled; and a history or display callback never runs before
\* its window has passed since the player's most recent updateLife.
\* ------------------------------------------------------------------------
C10_LastRestartWins ==
    /\ [](\A p \in Players, k \in {"history", "change"} :
            Cardinality(PendingTimers(k, p)) <= 1)
    /\ [][ \A p \in Players, a \in Amounts :
             updateLife(p, a) =>
               /\ {t.deadline : t \in {u \in timers' : u.kind = "history" /\ u.player = p}}
                     = {now + HistoryDelay}
               /\ {t.deadline : t \in {u \in timers' : u.kind = "change" /\ u.player = p}}
                     = {now + ChangeDelay}
               /\ \A t \in timers : t.player = p => t \notin timers' ]_vars
    /\ [][ \A t \in timers :
             /\ HistoryTimerFires(t) => now >= LastDelta(t.player) + HistoryDelay
             /\ ChangeTimerFires(t) => now >= LastDelta(t.player) + ChangeDelay ]_vars

\* Player 2's second delta restarted both timers: at t = 3000 the history
\* callback has run once, and the display timer is pending for t = 4000.
C10_Witness ==
    /\ DeltaTimes(2) = <<0, 1000>>
    /\ now = 3000
    /\ fired[2] = <<[kind |-> "history", at |-> 3000]>>
    /\ \E t \in timers : PendingTimers("change", 2) = {t} /\ t.deadline = 4000

\* ------------------------------------------------------------------------
\* C11  No cross-player interference.  updateLife(p, .) and the callbacks
\* of p's history and display timers leave the other player's life,
\* pending delta, history buffer, timer handles and pending timers (with
\* their deadlines) as they were.
\* ------------------------------------------------------------------------
TimersOf(T, p) == {t \in T : t.player = p}

C11_NoCrossPlayerInterference ==
    [][ \A p \in Players :
          ( \/ \E a \in Amounts : updateLife(p, a)
            \/ \E t \in TimersOf(timers, p) :
                   HistoryTimerFires(t) \/ ChangeTimerFires(t) ) =>
              LET o == Other(p)
              IN  /\ life'[o] = life[o]
                  /\ change'[o] = change[o]
                  /\ historyBuffer'[o] = historyBuffer[o]
                  /\ changeTimeout'[o] = changeTimeout[o]
                  /\ historyTimeout'[o] = historyTimeout[o]
                  /\ TimersOf(timers', o) = TimersOf(timers, o) ]_vars

\* Player 1's display callback has run while player 2 had a delta pending
\* on both tracks.
C11_Witness ==
    /\ fired[1] # <<>>
    /\ fired[1][Len(fired[1])].kind = "change"
    /\ change[2] # 0
    /\ historyBuffer[2] # 0
    /\ PendingTimers("history", 2) # {}
    /\ PendingTimers("change", 2) # {}

\* ------------------------------------------------------------------------
\* C14  currentLife.  updateLife(p, a) sets the life of p to its previous
\* value plus a, below zero included, and leaves the other life alone; no
\* timer callback changes a life; a life changes only in a step of
\* updateLife or of reset.
\* ------------------------------------------------------------------------
C14_LifeChangedOnlyByUpdateAndReset ==
    [][ /\ \A p \in Players, a \in Amounts :
             updateLife(p, a) =>
                 /\ life'[p] = IF life[p] = NaN THEN NaN ELSE life[p] + a
                 /\ life'[Other(p)] = life[Other(p)]
        /\ TimerFires => life' = life
        /\ life' # life =>
             \/ \E p \in Players, a \in Amounts : updateLife(p, a)
             \/ ResetCalled ]_vars

\* A life below zero, still there after that player's history callback.
C14_Witness ==
    /\ startLife[1] = 2
    /\ life[1] = -1
    /\ EntriesOf(1) = <<[player |-> 1, amount |-> -3, newLife |-> -1,
                         timestamp |-> TimeText(LastDelta(1) + HistoryDelay)]>>

\* ------------------------------------------------------------------------
\* C15  The history is append-only between resets.  In every step the
\* history stays the same, or a history callback adds one entry at its
\* end, or a reset (reset, setStartLife) empties it.
\* ------------------------------------------------------------------------
C15_HistoryAppendOnly ==
    [][ \/ history' = history
        \/ /\ \E t \in timers : HistoryTimerFires(t)
           /\ Len(history') = Len(history) + 1
           /\ SubSeq(history', 1, Len(history)) = history
        \/ /\ ResetCalled
           /\ history' = <<>> ]_vars

\* Two entries, in the order their callbacks ran.
C15_Witness ==
    /\ Len(history) = 2
    /\ history[1].player = 1 /\ history[1].timestamp = 2
    /\ history[2].player = 2 /\ history[2].timestamp = 3

\* ------------------------------------------------------------------------
\* C12  updateLife(player, 0) is a no-op.  Such a call changes no life, no
\* pending delta, no buffer and no history, leaves the indicator as it is
\* shown, and leaves every pending timer with its deadline.
\* ------------------------------------------------------------------------
Deadlines(T) == {<<t.kind, t.player, t.deadline>> : t \in T}

C12_ZeroAmountNoOp ==
    [][ \A p \in Players :
          updateLife(p, 0) =>
              /\ UNCHANGED <<life, change, historyBuffer, history>>
              /\ UNCHANGED <<indicatorText, indicatorShow>>
              /\ Deadlines(timers') = Deadlines(timers) ]_vars
\* ------------------------------------------------------------------------
\* C13  Notification granularity.  renderLife is the life-changed
\* notification and renderHistory the history-changed one.  Each
\* updateLife calls renderLife once and renderHistory never; renderHistory
\* is called once in a step that appends an entry, once in a reset, and in
\* no other step; a history callback that finds a zero buffer calls
\* neither; a reset calls both, once each; renderLife is called in no step
\* other than these.
\* ------------------------------------------------------------------------
C13_NotificationGranularity ==
    [][ /\ \A p \in Players, a \in Amounts :
             updateLife(p, a) =>
                 /\ lifeRenders' = lifeRenders + 1
                 /\ historyRenders' = historyRenders
        /\ historyRenders' =
               historyRenders + (IF EntryAppended \/ ResetCalled THEN 1 ELSE 0)
        /\ \A t \in timers :
             HistoryTimerFires(t) /\ historyBuffer[t.player] = 0 =>
                 UNCHANGED <<lifeRenders, historyRenders>>
        /\ ResetCalled => lifeRenders' = lifeRenders + 1
        /\ lifeRenders' =
               lifeRenders +
                   (IF \/ \E p \in Players, a \in Amounts : updateLife(p, a)
                       \/ ResetCalled
                    THEN 1 ELSE 0) ]_vars

\* Two calls of updateLife that cancel out, and the history callback that
\* found the zero buffer: two life renders and no history render.
C13_Witness ==
    /\ deltas[1] = <<[at |-> 0, amount |-> 3], [at |-> 0, amount |-> -3]>>
    /\ fired[1] = <<[kind |-> "history", at |-> 2000]>>
    /\ lifeRenders = 2
    /\ historyRenders = 0
\* ------------------------------------------------------------------------
\* C16  displayColor.  The two colors are assigned by the constructor and
\* no step changes them; for every initial hue h in 0..359 the hue of
\* player 2 is (h + 180) mod 360, so the two hues always differ.
\* ------------------------------------------------------------------------
C16_ColorsStableAndDistinct ==
    /\ [](/\ p1Color \in 0..359
          /\ p2Color = (p1Color + 180) % 360
          /\ p1Color # p2Color)
    /\ [][p1Color' = p1Color /\ p2Color' = p2Color]_vars

\* A hue whose opposite wraps around the circle, after an updateLife whose
\* two timers have both run.
C16_Witness ==
    /\ p1Color = 359
    /\ p2Color = 179
    /\ Len(deltas[1]) = 1
    /\ Len(fired[1]) = 2
\* ------------------------------------------------------------------------
\* C17  Works offline once cached.  A fetch event for a request that is
\* in the cache is answered with the cached response in the step of the
\* event, before the network has settled, and that answer is never
\* changed; a background fetch that rejects or resolves with a status
\* other than 200 queues no cache.put; a cached entry is never removed,
\* and is replaced only by a cache.put of a 200 response.
\* ------------------------------------------------------------------------
C17_CachedAnsweredOffline ==
    [][ /\ \A request \in Requests :
             FetchEvent(request) /\ cache[request] # NoResponse =>
                 /\ answers'[Len(answers')].response = cache[request]
                 /\ cache' = cache
        /\ \A i \in DOMAIN answers :
             answers[i].hit => answers'[i].response = answers[i].response
        /\ \A f \in inflight, outcome \in NetworkOutcomes :
             ( /\ NetworkSettles(f, outcome)
               /\ f.path = "revalidate"
               /\ outcome.status # 200 ) =>
                 cache' = cache /\ puts' = puts
        /\ \A request \in Requests :
             cache[request] # NoResponse /\ cache'[request] # cache[request] =>
                 \E w \in puts :
                     /\ CachePut(w)
                     /\ w.request = request
                     /\ w.response.status = 200 ]_vars

\* A cached request was answered from the cache, its background fetch
\* then got a 404 and another one was rejected, and the entry is still
\* the one that was served.
C17_Witness ==
    /\ Len(answers) >= 2
    /\ answers[1].hit /\ answers[2].hit
    /\ answers[1].request = answers[2].request
    /\ answers[1].network.status = 404
    /\ answers[2].network = Rejected
    /\ puts = {}
    /\ cache[answers[1].request] = answers[1].response
    /\ answers[2].response = answers[1].response

\* ------------------------------------------------------------------------
\* C18  The cache is written only with 200 responses.  Every cache.put
\* that is queued, on the background path and on the uncached path,
\* carries a response with status 200, so every cache entry has status
\* 200; an uncached request whose fetch resolves with another status is
\* answered with that response, and neither the cache nor the queued
\* puts change.
\* ------------------------------------------------------------------------
C18_OnlyOkResponsesCached ==
    /\ [](/\ \A w \in puts : w.response.status = 200
          /\ \A request \in Requests :
                cache[request] = NoResponse \/ cache[request].status = 200)
    /\ [][ \A f \in inflight, outcome \in NetworkOutcomes :
             ( /\ NetworkSettles(f, outcome)
               /\ f.path = "miss"
               /\ outcome # Rejected
               /\ outcome.status # 200 ) =>
                 /\ answers'[f.id].response = outcome
                 /\ cache' = cache
                 /\ puts' = puts ]_vars

\* An uncached request got a 404 and was answered with it, the cache has
\* no entry for it; a later fetch of it got a 200, which was written.
C18_Witness ==
    /\ Len(answers) >= 2
    /\ ~answers[1].hit /\ ~answers[2].hit
    /\ answers[1].request = "/api" /\ answers[2].request = "/api"
    /\ answers[1].response.status = 404
    /\ answers[2].response = Ok(2)
    /\ puts = {}
    /\ cache["/api"] = Ok(2)
\* ------------------------------------------------------------------------
\* C19  Long-press auto-repeat stops with the press.  Once stopHold has
\* run and until the next pointerdown, no callback of a timer that
\* startHold or repeat scheduled runs, so the button makes no auto-repeat
\* call of updateLife.
\* ------------------------------------------------------------------------
C19_NoRepeatAfterStopHold ==
    [][ stopped =>
          ~ \E t \in holdTimers :
                holdTimeoutCallback(t) \/ repeatCallback(t) ]_vars

\* ------------------------------------------------------------------------
\* C20  Single tap versus long press.  A click applies no updateLife when
\* the press it comes from had started auto-repeating, and exactly one
\* updateLife in every other case: after a short press, and when it
\* follows no press (the last long press ended by pointerleave or
\* pointercancel, or there was none).
\* ------------------------------------------------------------------------
C20_ClickAppliesUnlessLongPress ==
    [][ click =>
          IF press = "long"
          THEN UNCHANGED <<life, calls>>
          ELSE /\ calls' = calls + 1
               /\ life' = [life EXCEPT ![btnPlayer] = JsAdd(@, btnAmount)] ]_vars
\* ------------------------------------------------------------------------
\* C21  Conservation.  In every state and for each player p, the life of p
\* is a number and equals the start life of p plus the amounts of p's
\* entries in the history plus historyBuffer[p]; and the newLife of every
\* entry equals the start life plus the amounts of that player's entries up
\* to and including it.
\* ------------------------------------------------------------------------
C21_Conservation ==
    /\ \A p \in Players :
          /\ life[p] # NaN
          /\ life[p] = startLife[p] + SumAmounts(EntriesOf(p)) + historyBuffer[p]
    /\ \A i \in DOMAIN history :
          LET p == history[i].player
              upTo == SelectSeq(SubSeq(history, 1, i), LAMBDA e : e.player = p)
          IN  history[i].newLife = startLife[p] + SumAmounts(upTo)
\* ------------------------------------------------------------------------
\* C22  Display accumulation.  In every state change[p] (pendingDelta) is
\* the sum of the amounts applied to p since the later of p's last display
\* expiry and the last reset; a history callback leaves every change[p] as
\* it is; and updateLife(p, a) adds a to change[p] and shows the sum,
\* whether or not a history flush came before it.
\* ------------------------------------------------------------------------
C22_DisplayAccumulation ==
    /\ [](\A p \in Players : change[p] = appliedDisplay[p])
    /\ [][ (\E t \in timers : HistoryTimerFires(t)) => change' = change ]_vars
    /\ [][ \A p \in Players, a \in Amounts :
             updateLifeBody(p, a) =>
                 /\ change'[p] = change[p] + a
                 /\ indicatorText'[p] = ChangeText(change[p] + a)
                 /\ indicatorShow'[p] ]_vars

\* +3 at t = 0 is logged at t = 2000; +4 follows at t = 2000, before the
\* display expiry at t = 3000: the indicator shows +7 with 3 of it logged.
C22_Witness ==
    /\ deltas[1] = <<[at |-> 0, amount |-> 3], [at |-> 2000, amount |-> 4]>>
    /\ fired[1] = <<[kind |-> "history", at |-> 2000]>>
    /\ EntriesOf(1) = <<[player |-> 1, amount |-> 3, newLife |-> 43,
                         timestamp |-> TimeText(2000)]>>
    /\ change[1] = 7
    /\ historyBuffer[1] = 4
    /\ indicatorShow[1]
    /\ indicatorText[1] = ChangeText(7)
\* ------------------------------------------------------------------------
\* C23  Indicator consistency.  Whenever a player's change indicator has
\* the class "show", its text is that player's pending delta (change[p]);
\* so after reset() or setStartLife() no visible indicator shows a delta
\* from before the reset.
\* ------------------------------------------------------------------------
C23_IndicatorShowsPendingDelta ==
    \A p \in Players :
        indicatorShow[p] => indicatorText[p] = ChangeText(change[p])
====
